---- MODULE Spec2Model ----
(***************************************************************************)
(* Model of src/resale_flats.py: class ResaleFlats.                        *)
(*                                                                         *)
(* The constructor fetches five partitions one HTTP request at a time,     *)
(* concatenates them, coerces two columns, derives price_per_sqm and date, *)
(* and stores the table twice (original_data and df).  The filter methods  *)
(* replace df by the rows of df that pass a boolean mask.                   *)
(*                                                                         *)
(* A DataFrame is a sequence of rows, a row is a record of its columns.    *)
(* Optional values are tuples: <<>> is None / NaN / NaT, a date is         *)
(* <<year, month, day>>, a month text "2020-01" is <<2020, 1>>.            *)
(* Numeric text is a sequence of characters, so that pd.to_numeric is a    *)
(* real parse that can fail.                                               *)
(***************************************************************************)
EXTENDS Integers, Sequences, FiniteSets, TLC

VARIABLES
    pc,             \* "fetching" (inside __init__), "ready" (instance exists), "failed"
    i,              \* number of resource_ids the for loop has completed
    requested,      \* the resource_ids requests.get was called with, in call order
    data,           \* the local `data`: the response of the latest requests.get
    dfs,            \* the local list `dfs`
    error,          \* the exception that ended __init__, "" when none
    original_data,  \* self.original_data
    df,             \* self.df
    ret,            \* what the latest method call returned
    shown,          \* what the latest method call passed to display()
    last,           \* the latest method call and its arguments
    prev,           \* self.df as it was when the latest method call began
    applied         \* the filter calls made since construction or the latest reset()

vars == <<pc, i, requested, data, dfs, error, original_data, df, ret, shown,
          last, prev, applied>>

(***************************************************************************)
(* Bounds and input domains                                                *)
(***************************************************************************)

\* Rows over all five partitions together.
MaxRows == 2

None == <<>>
NaT == <<>>

Digits == {"0", "1", "2", "3", "4", "5", "6", "7", "8", "9"}

\* Records as the API returns them: every value is text (or missing).
RawRecords ==
    { [town |-> "Bedok", flat_type |-> "3 ROOM", month |-> <<2020, 1>>,
       resale_price |-> <<"1", "0", "0">>, floor_area_sqm |-> <<"3">>],
      [town |-> "Tampines", flat_type |-> "4 ROOM", month |-> <<2020, 2>>,
       resale_price |-> <<"9", "0">>, floor_area_sqm |-> <<"4">>],
      [town |-> "Bedok", flat_type |-> "4 ROOM", month |-> None,
       resale_price |-> <<"9", "0">>, floor_area_sqm |-> <<"0">>],
      [town |-> "Tampines", flat_type |-> "3 ROOM", month |-> <<2020, 1>>,
       resale_price |-> <<"2", "5">>, floor_area_sqm |-> <<"8">>],
      \* a price that is no number, and a month that is no month
      [town |-> "Bedok", flat_type |-> "3 ROOM", month |-> <<2020, 1>>,
       resale_price |-> <<"9", "x">>, floor_area_sqm |-> <<"3">>],
      [town |-> "Bedok", flat_type |-> "3 ROOM", month |-> <<2020, 13>>,
       resale_price |-> <<"9", "0">>, floor_area_sqm |-> <<"3">>] }

\* Arguments the callers pass.
TownArgs == SUBSET {"Bedok", "Tampines", "Yishun"}
FlatTypeArgs == SUBSET {"3 ROOM", "4 ROOM"}
TimeArgs == {None, <<2020, 1, 1>>, <<2020, 1, 15>>, <<2020, 2, 1>>}
ShowArgs == {-1, 0, 1, 5}

SeqUpTo(S, n) == UNION {[1..k -> S] : k \in 0..n}

(***************************************************************************)
(* Dates                                                                   *)
(***************************************************************************)

\* datetime.MINYEAR and datetime.MAXYEAR
MINYEAR == 1
MAXYEAR == 9999

\* Order-preserving number of a calendar date <<y, m, d>>.
Ordinal(d) == ((d[1] * 12) + (d[2] - 1)) * 31 + (d[3] - 1)

\* d1 <= d2 on datetimes; a comparison with NaT is False.
DateLE(d1, d2) == d1 # NaT /\ d2 # NaT /\ Ordinal(d1) <= Ordinal(d2)

(***************************************************************************)
(* Enricher: the column conversions of fetch_data                          *)
(***************************************************************************)

DigitValue ==
    ("0" :> 0) @@ ("1" :> 1) @@ ("2" :> 2) @@ ("3" :> 3) @@ ("4" :> 4) @@
    ("5" :> 5) @@ ("6" :> 6) @@ ("7" :> 7) @@ ("8" :> 8) @@ ("9" :> 9)

\* pd.to_numeric accepts the text (the model's texts are unsigned decimal integers).
IsNumeric(text) == text # <<>> /\ \A k \in 1..Len(text) : text[k] \in Digits

RECURSIVE to_numeric(_)
to_numeric(text) ==
    IF text = <<>> THEN 0
    ELSE 10 * to_numeric(SubSeq(text, 1, Len(text) - 1)) + DigitValue[text[Len(text)]]

\* pd.to_datetime accepts the month: a missing value becomes NaT, "YYYY-MM" a date.
IsMonth(month) == month = None \/ month[2] \in 1..12

to_datetime(month) == IF month = None THEN NaT ELSE <<month[1], month[2], 1>>

\* (resale_price / floor_area_sqm).round(2), in hundredths; a tie goes to the even
\* hundredth, a zero divisor gives inf (nan for 0 / 0) and raises nothing.
price_per_sqm(resale_price, floor_area_sqm) ==
    IF floor_area_sqm = 0
    THEN [kind |-> IF resale_price = 0 THEN "nan" ELSE "inf", hundredths |-> 0]
    ELSE LET q == (100 * resale_price) \div floor_area_sqm
             r == (100 * resale_price) % floor_area_sqm
         IN  [kind |-> "finite",
              hundredths |-> IF 2 * r < floor_area_sqm THEN q
                             ELSE IF 2 * r > floor_area_sqm THEN q + 1
                             ELSE IF q % 2 = 0 THEN q ELSE q + 1]

\* One row of the table fetch_data returns.
EnrichRow(rec) ==
    LET p == to_numeric(rec.resale_price)
        a == to_numeric(rec.floor_area_sqm)
    IN  [town |-> rec.town, flat_type |-> rec.flat_type, month |-> rec.month,
         resale_price |-> p, floor_area_sqm |-> a,
         price_per_sqm |-> price_per_sqm(p, a), date |-> to_datetime(rec.month)]

Enrich(table) == [k \in 1..Len(table) |-> EnrichRow(table[k])]

\* Variant of concat: each frame is put ahead of the frames fetched before it.
RECURSIVE concat_prepending(_)
concat_prepending(frames) ==
    IF frames = <<>> THEN <<>> ELSE concat_prepending(Tail(frames)) \o Head(frames)

\* pd.concat(dfs): the frames one after another, in list order.
RECURSIVE concat(_)
concat(frames) ==
    IF frames = <<>> THEN <<>> ELSE Head(frames) \o concat(Tail(frames))

(***************************************************************************)
(* Fetcher                                                                 *)
(***************************************************************************)

\* the five entries of resource_ids
NumPartitions == 5

\* resource_ids, each id written as its place in the list
resource_ids == [k \in 1..NumPartitions |-> k]

\* What a response body parses to.
Shapes == {"not_json", "no_result", "no_records", "records"}

Bodies(room) ==
    {[shape |-> s, records |-> <<>>] : s \in Shapes \ {"records"}}
    \cup {[shape |-> "records", records |-> rs] : rs \in SeqUpTo(RawRecords, room)}

\* requests.get either raises or returns a response with a status and a body.
Responses(room) ==
    {[raised |-> TRUE, status |-> 0, body |-> [shape |-> "not_json", records |-> <<>>]]}
    \cup [raised : {FALSE}, status : {200, 500}, body : Bodies(room)]

NoData == [raised |-> FALSE, status |-> 0, shape |-> ""]

NoCall == [op |-> "", towns |-> {}, flat_types |-> {}, start |-> None, end |-> None, n |-> 0]

NoReturn == [kind |-> "none", rows |-> <<>>, towns |-> <<>>]

Fresh == [town |-> <<>>, flat_type |-> <<>>, time |-> <<>>, open |-> TRUE]

Dropped == [town |-> <<>>, flat_type |-> <<>>, time |-> <<>>, open |-> FALSE]

\* The exception the loop body raises on a response, "" when it raises none.
FetchError(resp) ==
    IF resp.raised THEN "RequestException"
    ELSE IF resp.body.shape = "not_json" THEN "JSONDecodeError"
    ELSE IF resp.body.shape \in {"no_result", "no_records"} THEN "KeyError"
    ELSE ""

\* The exception the statements after the loop raise on the merged table.
EnrichError(table) ==
    IF table = <<>> THEN "KeyError"
    ELSE IF \E k \in 1..Len(table) :
                ~IsNumeric(table[k].resale_price) \/ ~IsNumeric(table[k].floor_area_sqm)
    THEN "ValueError"
    ELSE IF \E k \in 1..Len(table) : ~IsMonth(table[k].month) THEN "ValueError"
    ELSE ""

Init ==
    /\ pc = "fetching"
    /\ i = 0
    /\ requested = <<>>
    /\ data = NoData
    /\ dfs = <<>>
    /\ error = ""
    /\ original_data = <<>>
    /\ df = <<>>
    /\ ret = NoReturn
    /\ shown = <<>>
    /\ last = NoCall
    /\ prev = <<>>
    /\ applied = Fresh

\* One pass of the for loop of fetch_data.
Fetch(resp) ==
    /\ pc = "fetching"
    /\ i < Len(resource_ids)
    /\ requested' = Append(requested, resource_ids[i + 1])
    /\ data' = [raised |-> resp.raised, status |-> resp.status, shape |-> resp.body.shape]
    /\ IF FetchError(resp) # ""
       THEN /\ pc' = "failed"
            /\ error' = FetchError(resp)
            /\ dfs' = <<>>
            /\ i' = i
       ELSE /\ dfs' = Append(dfs, resp.body.records)
            /\ i' = i + 1
            /\ UNCHANGED <<pc, error>>
    /\ UNCHANGED <<original_data, df, ret, shown, last, prev, applied>>

\* The statements after the loop, and the two assignments of __init__.
Build ==
    /\ pc = "fetching"
    /\ i = Len(resource_ids)
    /\ LET table == concat(dfs)
       IN  IF EnrichError(table) # ""
           THEN /\ pc' = "failed"
                /\ error' = EnrichError(table)
                /\ UNCHANGED <<original_data, df>>
           ELSE /\ pc' = "ready"
                /\ original_data' = Enrich(table)
                /\ df' = Enrich(table)
                /\ UNCHANGED error
    /\ dfs' = <<>>
    /\ data' = NoData
    /\ UNCHANGED <<i, requested, ret, shown, last, prev, applied>>

(***************************************************************************)
(* Filter surface                                                          *)
(***************************************************************************)

\* frame[mask]: the rows whose mask entry is True, in the order of the frame.
RECURSIVE BoolIndex(_, _)
BoolIndex(frame, mask) ==
    IF frame = <<>> THEN <<>>
    ELSE IF Head(mask)
         THEN <<Head(frame)>> \o BoolIndex(Tail(frame), Tail(mask))
         ELSE BoolIndex(Tail(frame), Tail(mask))

\* Series.isin(values), one entry per row
isin(value, values) == value \in values

\* Variants of TownMask: the mask is taken from the flat_type column; the first row
\* is never selected; an empty list selects every row.
TownMaskOfFlatType(frame, towns) ==
    [k \in 1..Len(frame) |-> isin(frame[k].flat_type, towns)]

TownMaskFromSecondRow(frame, towns) ==
    [k \in 1..Len(frame) |-> k > 1 /\ isin(frame[k].town, towns)]

TownMaskEmptyKeepsAll(frame, towns) ==
    [k \in 1..Len(frame) |-> towns = {} \/ isin(frame[k].town, towns)]

TownMask(frame, towns) == [k \in 1..Len(frame) |-> isin(frame[k].town, towns)]

FlatTypeMask(frame, flat_types) ==
    [k \in 1..Len(frame) |-> isin(frame[k].flat_type, flat_types)]

\* the two defaults of filter_by_time
StartOrMin(start) == IF start = None THEN <<MINYEAR, 1, 1>> ELSE start

EndOrMax(end) == IF end = None THEN <<MAXYEAR, 12, 31>> ELSE end

\* Variant of InRange: the start of the range is excluded.
InRangeAfterStart(date, start, end) ==
    DateLE(start, date) /\ date # start /\ DateLE(date, end)

\* (date >= start) & (date <= end) for one row
InRange(date, start, end) == DateLE(start, date) /\ DateLE(date, end)

TimeMask(frame, start, end) ==
    [k \in 1..Len(frame) |-> InRange(frame[k].date, StartOrMin(start), EndOrMax(end))]

\* Series.unique(): the distinct values in order of first appearance.
RECURSIVE unique(_)
unique(column) ==
    IF column = <<>> THEN <<>>
    ELSE LET init == unique(SubSeq(column, 1, Len(column) - 1))
             x == column[Len(column)]
         IN  IF \E k \in 1..Len(init) : init[k] = x THEN init ELSE Append(init, x)

TownColumn(frame) == [k \in 1..Len(frame) |-> frame[k].town]

\* DataFrame.head(n): the first n rows, or all but the last -n rows when n < 0.
head(frame, n) ==
    IF n >= 0
    THEN SubSeq(frame, 1, IF n < Len(frame) THEN n ELSE Len(frame))
    ELSE SubSeq(frame, 1, IF Len(frame) + n > 0 THEN Len(frame) + n ELSE 0)

\* Variant of ResetTarget: reset() keeps the current view.
ResetTargetKeepsView(snapshot, view) == view

\* The view self.df is reset to.
ResetTarget(snapshot, view) == snapshot

\* `applied` after one more filter call of the given kind: the pipeline is followed
\* while it is made of filter calls of different kinds, and given up after that.
Track(track, kind, arg) ==
    IF track.open /\ track[kind] = <<>> THEN [track EXCEPT ![kind] = arg] ELSE Dropped

View(frame) == [kind |-> "view", rows |-> frame, towns |-> <<>>]

reset ==
    /\ pc = "ready"
    /\ df' = ResetTarget(original_data, df)
    /\ ret' = NoReturn
    /\ shown' = <<>>
    /\ last' = [NoCall EXCEPT !.op = "reset"]
    /\ prev' = df
    /\ applied' = Fresh
    /\ UNCHANGED <<pc, i, requested, data, dfs, error, original_data>>

\* Variant of get_towns: the towns are read from original_data.
get_towns_of_snapshot ==
    /\ pc = "ready"
    /\ ret' = [kind |-> "towns", rows |-> <<>>, towns |-> unique(TownColumn(original_data))]
    /\ shown' = <<>>
    /\ last' = [NoCall EXCEPT !.op = "get_towns"]
    /\ prev' = df
    /\ applied' = Dropped
    /\ UNCHANGED <<pc, i, requested, data, dfs, error, original_data, df>>

get_towns ==
    /\ pc = "ready"
    /\ ret' = [kind |-> "towns", rows |-> <<>>, towns |-> unique(TownColumn(df))]
    /\ shown' = <<>>
    /\ last' = [NoCall EXCEPT !.op = "get_towns"]
    /\ prev' = df
    /\ applied' = Dropped
    /\ UNCHANGED <<pc, i, requested, data, dfs, error, original_data, df>>

filter_by_town(towns) ==
    /\ pc = "ready"
    /\ df' = BoolIndex(df, TownMask(df, towns))
    /\ ret' = View(df')
    /\ shown' = <<>>
    /\ last' = [NoCall EXCEPT !.op = "filter_by_town", !.towns = towns]
    /\ prev' = df
    /\ applied' = Track(applied, "town", <<towns>>)
    /\ UNCHANGED <<pc, i, requested, data, dfs, error, original_data>>

\* Variant of filter_by_flat_type: the rows are taken from original_data.
filter_by_flat_type_of_snapshot(flat_types) ==
    /\ pc = "ready"
    /\ df' = BoolIndex(original_data, FlatTypeMask(original_data, flat_types))
    /\ ret' = View(df')
    /\ shown' = <<>>
    /\ last' = [NoCall EXCEPT !.op = "filter_by_flat_type", !.flat_types = flat_types]
    /\ prev' = df
    /\ applied' = Track(applied, "flat_type", <<flat_types>>)
    /\ UNCHANGED <<pc, i, requested, data, dfs, error, original_data>>

filter_by_flat_type(flat_types) ==
    /\ pc = "ready"
    /\ df' = BoolIndex(df, FlatTypeMask(df, flat_types))
    /\ ret' = View(df')
    /\ shown' = <<>>
    /\ last' = [NoCall EXCEPT !.op = "filter_by_flat_type", !.flat_types = flat_types]
    /\ prev' = df
    /\ applied' = Track(applied, "flat_type", <<flat_types>>)
    /\ UNCHANGED <<pc, i, requested, data, dfs, error, original_data>>

filter_by_time(start, end) ==
    /\ pc = "ready"
    /\ df' = BoolIndex(df, TimeMask(df, start, end))
    /\ ret' = View(df')
    /\ shown' = <<>>
    /\ last' = [NoCall EXCEPT !.op = "filter_by_time", !.start = start, !.end = end]
    /\ prev' = df
    /\ applied' = Track(applied, "time", <<start, end>>)
    /\ UNCHANGED <<pc, i, requested, data, dfs, error, original_data>>

\* datetime(MINYEAR, 1, 1) and datetime(MAXYEAR, 12, 31) lie outside the range of a
\* nanosecond Timestamp.  A pandas that converts the bound to one before comparing
\* raises OutOfBoundsDatetime at the comparison, before self.df is assigned; a pandas
\* that compares across resolutions does not.  Both outcomes are possible.
filter_by_time_out_of_bounds(start, end) ==
    /\ pc = "ready"
    /\ start = None \/ end = None
    /\ ret' = [kind |-> "OutOfBoundsDatetime", rows |-> <<>>, towns |-> <<>>]
    /\ shown' = <<>>
    /\ last' = [NoCall EXCEPT !.op = "filter_by_time", !.start = start, !.end = end]
    /\ prev' = df
    /\ applied' = Dropped
    /\ UNCHANGED <<pc, i, requested, data, dfs, error, original_data, df>>

show(n) ==
    /\ pc = "ready"
    /\ shown' = head(df, n)
    /\ ret' = NoReturn
    /\ last' = [NoCall EXCEPT !.op = "show", !.n = n]
    /\ prev' = df
    /\ applied' = Dropped
    /\ UNCHANGED <<pc, i, requested, data, dfs, error, original_data, df>>

Next ==
    \/ \E resp \in Responses(MaxRows - Len(concat(dfs))) : Fetch(resp)
    \/ Build
    \/ reset
    \/ get_towns
    \/ \E towns \in TownArgs : filter_by_town(towns)
    \/ \E flat_types \in FlatTypeArgs : filter_by_flat_type(flat_types)
    \/ \E start \in TimeArgs, end \in TimeArgs : filter_by_time(start, end)
    \/ \E start \in TimeArgs, end \in TimeArgs : filter_by_time_out_of_bounds(start, end)
    \/ \E n \in ShowArgs : show(n)

Spec == Init /\ [][Next]_vars

(***************************************************************************)
(* Vocabulary of the properties                                            *)
(***************************************************************************)

Elements(seq) == {seq[k] : k \in 1..Len(seq)}

TownsOf(frame) == {frame[k].town : k \in 1..Len(frame)}

\* a <= b on calendar dates, year first
NotAfter(a, b) ==
    \/ a[1] < b[1]
    \/ a[1] = b[1] /\ a[2] < b[2]
    \/ a[1] = b[1] /\ a[2] = b[2] /\ a[3] <= b[3]

\* start <= date <= end; no comparison holds of a missing date
Within(date, start, end) == date # NaT /\ NotAfter(start, date) /\ NotAfter(date, end)

RowsInTowns(frame, towns) ==
    LET Keep(row) == row.town \in towns IN SelectSeq(frame, Keep)

RowsWithin(frame, start, end) ==
    LET Keep(row) == Within(row.date, start, end) IN SelectSeq(frame, Keep)

RECURSIVE IsSubsequence(_, _)
IsSubsequence(a, b) ==
    IF a = <<>> THEN TRUE
    ELSE IF b = <<>> THEN FALSE
    ELSE IF Head(a) = Head(b) THEN IsSubsequence(Tail(a), Tail(b))
    ELSE IsSubsequence(a, Tail(b))

\* the number of rows in the tables ahead of the p-th
RECURSIVE RowsBefore(_, _)
RowsBefore(frames, p) ==
    IF p = 1 THEN 0 ELSE RowsBefore(frames, p - 1) + Len(frames[p - 1])

(***************************************************************************)
(* Properties                                                              *)
(***************************************************************************)

\* C1: once the instance exists no call changes original_data, and every reset()
\* leaves df equal to original_data, row for row, whatever filters came before.
C1_ResetRestoresSnapshot ==
    [][ /\ pc = "ready" => original_data' = original_data
        /\ last'.op = "reset" =>
              /\ df' = original_data
              /\ Len(df') = Len(original_data) ]_vars

C1_Witness ==
    /\ last.op = "reset"
    /\ Len(prev) < Len(original_data)
    /\ df = original_data
    /\ Len(df) >= 2

\* C2: filter_by_town(T) makes df exactly the rows of the former df whose town is in
\* T, in their former order, returns that same table, and raises nothing; with no
\* such row the result is empty.
C2_FilterByTownExact ==
    last.op = "filter_by_town" =>
        /\ df = RowsInTowns(prev, last.towns)
        /\ ret.kind = "view" /\ ret.rows = df
        /\ (TownsOf(prev) \cap last.towns = {} => df = <<>>)

C2_Witness ==
    /\ last.op = "filter_by_town"
    /\ df # <<>>
    /\ Len(df) < Len(prev)
    /\ TownsOf(prev) \cap last.towns # {}

\* C3: a filter_by_town(T') that directly follows a filter_by_town(T) with T not
\* empty, where T' is T or holds every town still in df, changes neither the rows
\* nor the row count of df.
C3_FilterByTownIdempotent ==
    [][ ( /\ last.op = "filter_by_town" /\ last.towns # {}
          /\ last'.op = "filter_by_town"
          /\ (last'.towns = last.towns \/ TownsOf(df) \subseteq last'.towns) )
        => (df' = df /\ Len(df') = Len(df)) ]_vars

C3_Witness ==
    /\ last.op = "filter_by_town" /\ last.towns # {}
    /\ ~applied.open
    /\ prev = df
    /\ df # <<>>
    /\ Len(df) < Len(original_data)
    /\ TownsOf(df) \subseteq last.towns

\* C4: after filter_by_town(T), filter_by_flat_type(F) and filter_by_time(s, e), called
\* once each in any order since construction or reset, df is original_data filtered
\* once by town in T, flat_type in F and s <= date <= e.
C4_FiltersConjoin ==
    ( /\ pc = "ready" /\ applied.open
      /\ applied.town # <<>> /\ applied.flat_type # <<>> /\ applied.time # <<>>
      /\ applied.time[1] # None /\ applied.time[2] # None )
    => LET Keep(row) == /\ row.town \in applied.town[1]
                        /\ row.flat_type \in applied.flat_type[1]
                        /\ Within(row.date, applied.time[1], applied.time[2])
       IN  /\ df = SelectSeq(original_data, Keep)
           /\ Len(df) = Len(SelectSeq(original_data, Keep))

C4_Witness ==
    /\ pc = "ready" /\ applied.open
    /\ applied.town # <<>> /\ applied.flat_type # <<>> /\ applied.time # <<>>
    /\ applied.time[1] # None /\ applied.time[2] # None
    /\ last.op = "filter_by_town"
    /\ df # <<>>
    /\ Len(df) < Len(original_data)

\* C5: filter_by_time(None, None), when it returns, returns the whole former df and
\* leaves df with the rows it had, rows with a NaT date included.
C5_NoBoundsIsNoOp ==
    ( /\ last.op = "filter_by_time" /\ last.start = None /\ last.end = None
      /\ ret.kind = "view" )
    => (df = prev /\ ret.rows = prev)

\* C6: filter_by_time(start, end) with both dates given makes df exactly the rows of
\* the former df with start <= date <= end, both ends included, and raises nothing;
\* with start > end the result is empty.
C6_FilterByTimeInclusive ==
    (last.op = "filter_by_time" /\ last.start # None /\ last.end # None)
    => /\ ret.kind = "view" /\ ret.rows = df
       /\ df = RowsWithin(prev, last.start, last.end)
       /\ \A k \in 1..Len(prev) :
             (prev[k].date = last.start \/ prev[k].date = last.end)
             /\ NotAfter(last.start, last.end)
             => prev[k] \in Elements(df)
       /\ (~NotAfter(last.start, last.end) => df = <<>>)

C6_Witness ==
    /\ last.op = "filter_by_time" /\ last.start # None /\ last.end # None
    /\ \E k \in 1..Len(df) : df[k].date = last.start
    /\ Len(df) < Len(prev)

\* C7: filter_by_town([]) and filter_by_flat_type([]) leave df with zero rows, and from
\* a df of zero rows every call other than reset() leaves it at zero rows.
C7_EmptyArgumentEmptiesView ==
    [][ /\ (last'.op = "filter_by_town" /\ last'.towns = {}) => df' = <<>>
        /\ (last'.op = "filter_by_flat_type" /\ last'.flat_types = {}) => df' = <<>>
        /\ (pc = "ready" /\ df = <<>> /\ last'.op # "reset") => df' = <<>> ]_vars

C7_Witness ==
    /\ applied.open /\ applied.town = <<{}>> /\ applied.flat_type = <<>>
    /\ last.op = "filter_by_time"
    /\ prev = <<>> /\ df = <<>>

\* C8: get_towns() returns exactly the distinct towns of the rows of df and changes
\* neither df nor original_data; right after filter_by_town(T) these are the members
\* of T with a row in the view T was applied to, right after reset() the towns of
\* original_data.
C8_GetTownsOfCurrentView ==
    [][ last'.op = "get_towns" =>
          /\ ret'.kind = "towns"
          /\ Elements(ret'.towns) = TownsOf(df)
          /\ Len(ret'.towns) = Cardinality(TownsOf(df))
          /\ df' = df /\ original_data' = original_data
          /\ (last.op = "filter_by_town" =>
                 Elements(ret'.towns) = {t \in last.towns : t \in TownsOf(prev)})
          /\ (last.op = "reset" => Elements(ret'.towns) = TownsOf(original_data)) ]_vars

C8_Witness ==
    /\ last.op = "get_towns"
    /\ Elements(ret.towns) = {"Bedok"}
    /\ "Tampines" \in TownsOf(original_data)

\* C9: a request that raises, a response whose status is not 2xx and a body without
\* result.records each end construction at once: no later request is made and no
\* instance comes to exist.
C9_FailedFetchEndsConstruction ==
    [][ ( /\ requested' # requested
          /\ (data'.raised \/ data'.status \notin 200..299 \/ data'.shape # "records") )
        => (pc' = "failed" /\ i' = i) ]_vars

\* C10: the snapshot is the five fetched tables one after another in the order of
\* resource_ids, and df is always a subsequence of original_data whose rows are equal,
\* column for column, to rows of original_data.
C10_ViewIsSubsequence ==
    /\ [](pc = "ready" => IsSubsequence(df, original_data))
    /\ [][ (pc = "fetching" /\ pc' = "ready") =>
             /\ Len(original_data') = Len(dfs[1]) + Len(dfs[2]) + Len(dfs[3])
                                       + Len(dfs[4]) + Len(dfs[5])
             /\ \A p \in 1..Len(dfs) : \A j \in 1..Len(dfs[p]) :
                   LET row == original_data'[RowsBefore(dfs, p) + j]
                   IN  /\ row.town = dfs[p][j].town
                       /\ row.flat_type = dfs[p][j].flat_type
                       /\ row.month = dfs[p][j].month
             /\ df' = original_data' ]_vars

C10_Witness ==
    /\ pc = "ready"
    /\ Len(original_data) >= 2
    /\ original_data[1] # original_data[2]
    /\ df = <<original_data[2]>>

====
